---- MODULE Spec2Model ----
(***************************************************************************)
(* A model of src/components/christmas/PhotoCards.tsx: the card store      *)
(* (cardDataRef), its reconciliation against the photo list, the           *)
(* asynchronous texture loads, the per-frame spring integrator and the     *)
(* polling re-render.                                                      *)
(*                                                                         *)
(* Numbers are fixed point: a length, a scale or a velocity x is held as   *)
(* the integer 1000*x, a time in milliseconds, an angle as 1000*angle/pi.  *)
(* Card indices are the source's, 0-based.                                 *)
(***************************************************************************)
EXTENDS Integers, Sequences, FiniteSets, Bags, TLC

VARIABLES
    photos,        \* the photos prop of the last render (<<>>: absent or empty)
    state,         \* the state prop: "tree" or "galaxy"
    focusedIndex,  \* the focusedIndex prop; NoFocus models null
    photoData,     \* the memoised photoData of the last render
    cardData,      \* cardDataRef.current
    loads,         \* bag of loader.load calls whose callback has not run yet
    rendered,      \* the texture each card's JSX was given by the last render
    intervalActive,\* the setInterval of the polling effect has not been cleared
    frames,        \* number of useFrame callbacks run so far
    renders,       \* number of renders with a new photos array so far
    last           \* the operation that produced this state

vars == <<photos, state, focusedIndex, photoData, cardData, loads, rendered,
          intervalActive, frames, renders, last>>

----------------------------------------------------------------------------
(* Bounds of the model *)

\* number of useFrame callbacks explored
MaxFrames == 1
\* largest focusedIndex the parent passes
MaxFocusIndex == 1
\* number of renders with a new photos array explored
MaxRenders == 1

----------------------------------------------------------------------------
(* Program constants *)

MAX_CARDS == 12
SPRING_STIFFNESS == 25
SPRING_DAMPING == 8
SCALE_STIFFNESS == 30
SCALE_DAMPING == 10
\* Math.min(delta, 0.033), in milliseconds
MAX_DT == 33
\* scale: existing?.scale || 0.4
INITIAL_SCALE == 400
\* targetScale = isFocused ? 5 : 0.4
FOCUSED_SCALE == 5000
AMBIENT_SCALE == 400
\* hsl((i * 30) % 360, ...)
HUE_STEP == 30
HUE_RANGE == 360

NoFocus == -1

Modes == {"tree", "galaxy"}

PERMANENT_PHOTOS ==
    << "/picture/12c4d7e60b6d8e78c5890f63c93c9d20.JPG",
       "/picture/1a37b000db75c8b0849b5ee3770c621e.JPG",
       "/picture/36fef6375fc7b236b205832d2ba799aa.JPG",
       "/picture/42c014aa95b7f848ecb0788c863f5282.JPG",
       "/picture/IMG_0133.JPG",
       "/picture/IMG_0129.JPG",
       "/picture/3b5a847c5437cdc522ad86ce8a1fb9d0.JPG",
       "/picture/14ac68aa2d4b1cb51d01bc3cba30d03a.JPG",
       "/picture/1edef4a7bef884c903a53d412649130f.JPG",
       "/picture/IMG_9295.JPG" >>

getDefaultPhotos == PERMANENT_PHOTOS

----------------------------------------------------------------------------
(* Inputs *)

\* the photo lists the parent passes: between them a list is resupplied unchanged,
\* grows, shrinks, and has the url at index 0 replaced with index 1 kept
PhotoLists == { << "a.jpg" >>, << "a.jpg", "b.jpg" >>, << "b.jpg", "b.jpg" >> }

\* frame deltas of the rendering clock, in milliseconds (the last one is clamped)
Deltas == {16, 50}

\* values of focusedIndex: null and the indices up to the bound (out of range for
\* the shorter lists)
FocusValues == {NoFocus} \cup (0..MaxFocusIndex)

\* outcomes of the Math.random() calls made for one card (0 <= r < 1): the three
\* of generateGalaxyPhotoPosition and the one of the card's initial time
Draws == { [galaxy |-> <<0, 0, 0>>, phase |-> 0],
           [galaxy |-> <<500, 250, 500>>, phase |-> 500] }

----------------------------------------------------------------------------
(* Arithmetic *)

Min(a, b) == IF a < b THEN a ELSE b

Idx(n) == 0..(n - 1)

\* a / b rounded to the nearest integer, b > 0
RoundDiv(a, b) ==
    IF a >= 0 THEN (2 * a + b) \div (2 * b)
              ELSE -((2 * (-a) + b) \div (2 * b))

\* product of two fixed-point numbers
Mul(a, b) == RoundDiv(a * b, 1000)

\* 1000*sin(pi*x/1000): Bhaskara's rational approximation on a half turn
SinPi(x) ==
    LET r == x % 2000
        h == IF r < 1000 THEN r ELSE r - 1000
        p == h * (1000 - h)
        \* 16 p / (5 - 4 p) with p = h (1 - h), reduced by 4
        s == RoundDiv(4000 * p, 1250000 - p)
    IN  IF r < 1000 THEN s ELSE -s

CosPi(x) == SinPi(x + 500)

\* 1000*acos(x/1000)/pi, by the chord through acos(-1), acos(0), acos(1)
AcosPi(x) == RoundDiv(1000 - x, 2)

VecAdd(a, b) == << a[1] + b[1], a[2] + b[2], a[3] + b[3] >>

VecSub(a, b) == << a[1] - b[1], a[2] - b[2], a[3] - b[3] >>

\* Vector3.multiplyScalar by an integer
VecScale(a, k) == << a[1] * k, a[2] * k, a[3] * k >>

\* Vector3.multiplyScalar(dt), dt in milliseconds
VecTimesDt(a, dt) ==
    << RoundDiv(a[1] * dt, 1000), RoundDiv(a[2] * dt, 1000), RoundDiv(a[3] * dt, 1000) >>

ZeroVec == << 0, 0, 0 >>

----------------------------------------------------------------------------
(* Layout *)

generateTreePhotoPosition(index, total) ==
    LET height == 7000
        maxRadius == 2800
        \* t = (index + 0.5) / total = (2 index + 1) / (2 total)
        y == RoundDiv(height * (2 * index + 1), 2 * total) - height \div 2 + 500
        radius == maxRadius - RoundDiv(maxRadius * 85 * (2 * index + 1), 100 * 2 * total)
        \* angle / pi = 10 t + index / 2
        angle == RoundDiv(1000 * (10 * (2 * index + 1) + index * total), 2 * total)
    IN  << Mul(CosPi(angle), radius), y, Mul(SinPi(angle), radius) >>

\* u: the three Math.random() results, in call order
generateGalaxyPhotoPosition(u) ==
    LET radius == 4000 + u[1] * 6
        theta == u[2] * 2
        phi == AcosPi(2 * u[3] - 1000)
    IN  << Mul(Mul(radius, SinPi(phi)), CosPi(theta)),
           Mul(Mul(radius, SinPi(phi)), SinPi(theta)) \div 2,
           Mul(radius, CosPi(phi)) >>

----------------------------------------------------------------------------
(* Textures *)

NullTexture == [kind |-> "null", url |-> "", hue |-> 0]

\* the THREE.Texture the loader hands to onLoad for url
LoadedTexture(url) == [kind |-> "photo", url |-> url, hue |-> 0]

\* the CanvasTexture of the onError callback of card i
PlaceholderTexture(i) ==
    [kind |-> "placeholder", url |-> "", hue |-> (i * HUE_STEP) % HUE_RANGE]

----------------------------------------------------------------------------
(* Render: photoUrls, photoData and the textures handed to the JSX *)

\* PhotoUrls without the fallback to the default photos
PhotoUrlsNoDefault(p) == p

\* photos && photos.length > 0 ? photos : getDefaultPhotos()
PhotoUrls(p) == IF Len(p) > 0 THEN p ELSE getDefaultPhotos

\* number of cards a list of urls gets: photoUrls.slice(0, 12).length
CardCount(urls) == Min(Len(urls), MAX_CARDS)

\* the useMemo body; g[i] are the Math.random() results of card i's galaxy position
PhotoDataOf(urls, g) ==
    [ i \in Idx(CardCount(urls)) |->
        [ url |-> urls[i + 1],
          treePosition |-> generateTreePhotoPosition(i, Min(Len(urls), MAX_CARDS)),
          galaxyPosition |-> generateGalaxyPhotoPosition(g[i]) ] ]

\* const texture = cardDataRef.current[i]?.texture, for every photo of photoData
RenderTextures(cards, pd) ==
    [ i \in DOMAIN pd |-> IF i \in DOMAIN cards THEN cards[i].texture ELSE NullTexture ]

\* meshRefs.current[i] is set by the ref callback of every rendered card
MeshMounted(pd, i) == i \in DOMAIN pd

----------------------------------------------------------------------------
(* The card store: reconciliation (the effect on [photoData]) *)

\* Math.random() * Math.PI * 2
RandomPhase(r) == RoundDiv(r * 6283, 1000)

\* CardDataOf without the reset of the texture when the url changed
CardDataOfKeepsTexture(cards, i, photo, r) ==
    LET has == i \in DOMAIN cards
    IN  [ treePosition |-> photo.treePosition,
          galaxyPosition |-> photo.galaxyPosition,
          position |-> IF has THEN cards[i].position ELSE photo.treePosition,
          velocity |-> IF has THEN cards[i].velocity ELSE ZeroVec,
          scale |-> IF has /\ cards[i].scale # 0 THEN cards[i].scale ELSE INITIAL_SCALE,
          scaleVelocity |-> IF has /\ cards[i].scaleVelocity # 0
                            THEN cards[i].scaleVelocity ELSE 0,
          texture |-> IF has THEN cards[i].texture ELSE NullTexture,
          textureUrl |-> photo.url,
          time |-> IF has /\ cards[i].time # 0 THEN cards[i].time ELSE RandomPhase(r) ]

\* CardDataOf with a new card starting at the scale 1 of a fresh Object3D
CardDataOfUnitScale(cards, i, photo, r) ==
    LET has == i \in DOMAIN cards
        urlChanged == IF has THEN cards[i].textureUrl # photo.url ELSE TRUE
    IN  [ treePosition |-> photo.treePosition,
          galaxyPosition |-> photo.galaxyPosition,
          position |-> IF has THEN cards[i].position ELSE photo.treePosition,
          velocity |-> IF has THEN cards[i].velocity ELSE ZeroVec,
          scale |-> IF has /\ cards[i].scale # 0 THEN cards[i].scale ELSE 1000,
          scaleVelocity |-> IF has /\ cards[i].scaleVelocity # 0
                            THEN cards[i].scaleVelocity ELSE 0,
          texture |-> IF urlChanged THEN NullTexture ELSE cards[i].texture,
          textureUrl |-> photo.url,
          time |-> IF has /\ cards[i].time # 0 THEN cards[i].time ELSE RandomPhase(r) ]

\* the CardData built for photo at index i; r is the Math.random() of its time
CardDataOf(cards, i, photo, r) ==
    LET has == i \in DOMAIN cards
        urlChanged == IF has THEN cards[i].textureUrl # photo.url ELSE TRUE
    IN  [ treePosition |-> photo.treePosition,
          galaxyPosition |-> photo.galaxyPosition,
          position |-> IF has THEN cards[i].position ELSE photo.treePosition,
          velocity |-> IF has THEN cards[i].velocity ELSE ZeroVec,
          scale |-> IF has /\ cards[i].scale # 0 THEN cards[i].scale ELSE INITIAL_SCALE,
          scaleVelocity |-> IF has /\ cards[i].scaleVelocity # 0
                            THEN cards[i].scaleVelocity ELSE 0,
          texture |-> IF urlChanged THEN NullTexture ELSE cards[i].texture,
          textureUrl |-> photo.url,
          time |-> IF has /\ cards[i].time # 0 THEN cards[i].time ELSE RandomPhase(r) ]

\* cardDataRef.current = photoData.map(...)
Reconcile(cards, pd, r) ==
    [ i \in DOMAIN pd |-> CardDataOf(cards, i, pd[i], r[i]) ]

\* if (!data.texture) loader.load(photo.url, onLoad, undefined, onError)
NeedsLoad(card) == card.texture = NullTexture

\* the loader.load calls one run of the effect makes; each closes over i and photo.url
StartedLoads(cards) ==
    SetToBag({ [i |-> i, url |-> cards[i].textureUrl] : i \in { j \in DOMAIN cards : NeedsLoad(cards[j]) } })

----------------------------------------------------------------------------
(* Load callbacks *)

\* OnLoad without the guard: the write creates the entry it does not find
OnLoadUnguarded(cards, i, url) ==
    [ j \in DOMAIN cards \cup {i} |->
        IF j # i THEN cards[j]
        ELSE IF i \in DOMAIN cards
             THEN [cards[i] EXCEPT !.texture = LoadedTexture(url), !.textureUrl = url]
             ELSE [ treePosition |-> ZeroVec, galaxyPosition |-> ZeroVec,
                    position |-> ZeroVec, velocity |-> ZeroVec,
                    scale |-> 0, scaleVelocity |-> 0,
                    texture |-> LoadedTexture(url), textureUrl |-> url, time |-> 0 ] ]

\* onLoad of the load started for (i, url)
OnLoad(cards, i, url) ==
    IF i \in DOMAIN cards
    THEN [cards EXCEPT ![i].texture = LoadedTexture(url), ![i].textureUrl = url]
    ELSE cards

\* OnError without the fallback: a failed load leaves the card as it is
OnErrorNoPlaceholder(cards, i) == cards

\* onError of the load started for index i
OnError(cards, i) ==
    IF i \in DOMAIN cards
    THEN [cards EXCEPT ![i].texture = PlaceholderTexture(i)]
    ELSE cards

----------------------------------------------------------------------------
(* The frame step *)

\* ClampDt without the clamp: the frame delta itself
ClampDtUnclamped(delta) == delta

\* const dt = Math.min(delta, 0.033)
ClampDt(delta) == Min(delta, MAX_DT)

FocusedPoint == << 0, 0, 800 >>

\* TargetPos without the mode: a card not focused always targets the tree
TargetPosIgnoresMode(card, i, st, focus) ==
    IF focus = i THEN FocusedPoint ELSE card.treePosition

TargetPos(card, i, st, focus) ==
    IF focus = i THEN FocusedPoint
    ELSE IF st = "tree" THEN card.treePosition ELSE card.galaxyPosition

TargetScale(i, focus) == IF focus = i THEN FOCUSED_SCALE ELSE AMBIENT_SCALE

\* Integrate with the idle bob of the mesh written back into card.position.y
IntegrateBobIntoPosition(card, targetPos, targetScale, dt) ==
    LET displacement == VecSub(card.position, targetPos)
        springForce == VecScale(displacement, -SPRING_STIFFNESS)
        dampingForce == VecScale(card.velocity, -SPRING_DAMPING)
        acceleration == VecAdd(springForce, dampingForce)
        velocity == VecAdd(card.velocity, VecTimesDt(acceleration, dt))
        position == VecAdd(card.position, VecTimesDt(velocity, dt))
        bob == RoundDiv(5 * SinPi(RoundDiv(card.time * 500, 3142)), 1000)
        scaleDisplacement == card.scale - targetScale
        scaleSpringForce == -SCALE_STIFFNESS * scaleDisplacement
        scaleDampingForce == -SCALE_DAMPING * card.scaleVelocity
        scaleVelocity == card.scaleVelocity
                           + RoundDiv((scaleSpringForce + scaleDampingForce) * dt, 1000)
        scale == card.scale + RoundDiv(scaleVelocity * dt, 1000)
    IN  [card EXCEPT !.velocity = velocity,
                     !.position = VecAdd(position, << 0, bob, 0 >>),
                     !.scaleVelocity = scaleVelocity,
                     !.scale = scale]

\* Integrate without the damping forces
IntegrateUndamped(card, targetPos, targetScale, dt) ==
    LET displacement == VecSub(card.position, targetPos)
        springForce == VecScale(displacement, -SPRING_STIFFNESS)
        velocity == VecAdd(card.velocity, VecTimesDt(springForce, dt))
        position == VecAdd(card.position, VecTimesDt(velocity, dt))
        scaleDisplacement == card.scale - targetScale
        scaleSpringForce == -SCALE_STIFFNESS * scaleDisplacement
        scaleVelocity == card.scaleVelocity + RoundDiv(scaleSpringForce * dt, 1000)
        scale == card.scale + RoundDiv(scaleVelocity * dt, 1000)
    IN  [card EXCEPT !.velocity = velocity,
                     !.position = position,
                     !.scaleVelocity = scaleVelocity,
                     !.scale = scale]

\* the spring physics of the loop body: position and scale toward the targets
Integrate(card, targetPos, targetScale, dt) ==
    LET displacement == VecSub(card.position, targetPos)
        springForce == VecScale(displacement, -SPRING_STIFFNESS)
        dampingForce == VecScale(card.velocity, -SPRING_DAMPING)
        acceleration == VecAdd(springForce, dampingForce)
        velocity == VecAdd(card.velocity, VecTimesDt(acceleration, dt))
        position == VecAdd(card.position, VecTimesDt(velocity, dt))
        scaleDisplacement == card.scale - targetScale
        scaleSpringForce == -SCALE_STIFFNESS * scaleDisplacement
        scaleDampingForce == -SCALE_DAMPING * card.scaleVelocity
        scaleVelocity == card.scaleVelocity
                           + RoundDiv((scaleSpringForce + scaleDampingForce) * dt, 1000)
        scale == card.scale + RoundDiv(scaleVelocity * dt, 1000)
    IN  [card EXCEPT !.velocity = velocity,
                     !.position = position,
                     !.scaleVelocity = scaleVelocity,
                     !.scale = scale]

\* the loop body of useFrame for card i: card.time += dt, targets, spring physics
StepCard(card, i, st, focus, dt) ==
    Integrate([card EXCEPT !.time = card.time + dt],
              TargetPos(card, i, st, focus), TargetScale(i, focus), dt)

\* StepAll that skips the cards whose texture has not arrived
StepAllLoadedOnly(cards, pd, st, focus, dt) ==
    [ i \in DOMAIN cards |->
        IF MeshMounted(pd, i) /\ cards[i].texture # NullTexture
        THEN StepCard(cards[i], i, st, focus, dt) ELSE cards[i] ]

\* the useFrame callback: one pass over cardDataRef.current
StepAll(cards, pd, st, focus, dt) ==
    [ i \in DOMAIN cards |->
        IF MeshMounted(pd, i) THEN StepCard(cards[i], i, st, focus, dt) ELSE cards[i] ]

----------------------------------------------------------------------------
(* The polling effect *)

\* cardDataRef.current.every(c => c.texture)
AllLoaded(cards) == \A i \in DOMAIN cards : cards[i].texture # NullTexture

----------------------------------------------------------------------------
(* Actions *)

\* the record kept in last: the operation, the index and url of a load callback, the
\* clamped dt of a frame, and for a reconciliation the number of cards it found and
\* the indices it found new or with a changed url
Op(name, i, url, dt) ==
    [op |-> name, i |-> i, url |-> url, dt |-> dt, n |-> 0, changed |-> {}]

\* the indices of pd for which the effect computes urlChanged = true
UrlChanged(cards, pd) ==
    { i \in DOMAIN pd : IF i \in DOMAIN cards THEN cards[i].textureUrl # pd[i].url ELSE TRUE }

\* the random results of one render and effect run, per card: the model explores
\* the runs in which every card of one render draws the same values
RandomResults(p) == { [i \in Idx(CardCount(PhotoUrls(p))) |-> d] : d \in Draws }

NoCards == [ i \in {} |-> NullTexture ]

\* first render and effects of the component mounted with photos p in mode m
Mount(p, m, rnd) ==
    LET pd == PhotoDataOf(PhotoUrls(p), [i \in DOMAIN rnd |-> rnd[i].galaxy])
        cards == Reconcile(NoCards, pd, [i \in DOMAIN rnd |-> rnd[i].phase])
    IN  /\ photos = p
        /\ state = m
        /\ focusedIndex = NoFocus
        /\ photoData = pd
        /\ rendered = RenderTextures(NoCards, pd)
        /\ cardData = cards
        /\ loads = StartedLoads(cards)
        /\ intervalActive = TRUE
        /\ frames = 0
        /\ renders = 0
        /\ last = Op("mount", -1, "", 0)

Init ==
    \E p \in PhotoLists, m \in Modes :
      \E rnd \in RandomResults(p) : Mount(p, m, rnd)

\* the parent renders with a new photos array: render, then the effect on [photoData]
SetPhotos(p, rnd) ==
    LET pd == PhotoDataOf(PhotoUrls(p), [i \in DOMAIN rnd |-> rnd[i].galaxy])
        cards == Reconcile(cardData, pd, [i \in DOMAIN rnd |-> rnd[i].phase])
    IN  /\ ~(Len(p) = 0 /\ Len(photos) = 0)
        /\ photos' = p
        /\ renders' = renders + 1
        /\ photoData' = pd
        /\ rendered' = RenderTextures(cardData, pd)
        /\ cardData' = cards
        /\ loads' = loads (+) StartedLoads(cards)
        /\ last' = [Op("setPhotos", -1, "", 0) EXCEPT
                       !.n = Cardinality(DOMAIN cardData),
                       !.changed = UrlChanged(cardData, pd)]
        /\ UNCHANGED <<state, focusedIndex, intervalActive, frames>>

\* the parent renders with another state prop
SetState(m) ==
    /\ m # state
    /\ state' = m
    /\ rendered' = RenderTextures(cardData, photoData)
    /\ last' = Op("setState", -1, "", 0)
    /\ UNCHANGED <<photos, focusedIndex, photoData, cardData, loads, intervalActive, frames, renders>>

\* the parent renders with another focusedIndex prop
SetFocus(f) ==
    /\ f # focusedIndex
    /\ focusedIndex' = f
    /\ rendered' = RenderTextures(cardData, photoData)
    /\ last' = Op("setFocus", f, "", 0)
    /\ UNCHANGED <<photos, state, photoData, cardData, loads, intervalActive, frames, renders>>

\* the loader calls onLoad of load a
LoadSuccess(a) ==
    /\ BagIn(a, loads)
    /\ loads' = loads (-) SetToBag({a})
    /\ cardData' = OnLoad(cardData, a.i, a.url)
    /\ last' = Op("onLoad", a.i, a.url, 0)
    /\ UNCHANGED <<photos, state, focusedIndex, photoData, rendered, intervalActive, frames, renders>>

\* the loader calls onError of load a
LoadError(a) ==
    /\ BagIn(a, loads)
    /\ loads' = loads (-) SetToBag({a})
    /\ cardData' = OnError(cardData, a.i)
    /\ last' = Op("onError", a.i, a.url, 0)
    /\ UNCHANGED <<photos, state, focusedIndex, photoData, rendered, intervalActive, frames, renders>>

\* the rendering clock calls the useFrame callback
Frame(delta) ==
    /\ frames' = frames + 1
    /\ cardData' = StepAll(cardData, photoData, state, focusedIndex, ClampDt(delta))
    /\ last' = Op("frame", -1, "", ClampDt(delta))
    /\ UNCHANGED <<photos, state, focusedIndex, photoData, loads, rendered, intervalActive,
                   renders>>

\* Tick without the clearInterval
TickKeepsInterval ==
    /\ intervalActive
    /\ intervalActive' = intervalActive
    /\ rendered' = RenderTextures(cardData, photoData)
    /\ last' = Op("tick", -1, "", 0)
    /\ UNCHANGED <<photos, state, focusedIndex, photoData, cardData, loads, frames, renders>>

\* the 100 ms interval fires: clearInterval when all loaded, then forceUpdate
Tick ==
    /\ intervalActive
    /\ intervalActive' = ~AllLoaded(cardData)
    /\ rendered' = RenderTextures(cardData, photoData)
    /\ last' = Op("tick", -1, "", 0)
    /\ UNCHANGED <<photos, state, focusedIndex, photoData, cardData, loads, frames, renders>>

Next ==
    \/ renders < MaxRenders /\ \E p \in PhotoLists : \E rnd \in RandomResults(p) : SetPhotos(p, rnd)
    \/ \E m \in Modes : SetState(m)
    \/ \E f \in FocusValues : SetFocus(f)
    \/ \E a \in BagToSet(loads) : LoadSuccess(a)
    \/ \E a \in BagToSet(loads) : LoadError(a)
    \/ frames < MaxFrames /\ \E d \in Deltas : Frame(d)
    \/ Tick

Spec == Init /\ [][Next]_vars

----------------------------------------------------------------------------
(* Vocabulary of the properties *)

\* the step is a run of a load callback (onLoad or onError)
IsCompletion == last'.op \in {"onLoad", "onError"} /\ loads' # loads

\* the step is a run of the useFrame callback
IsFrame == frames' = frames + 1

\* the step is a render with a new photos array followed by the effect on [photoData]
IsReconciliation == renders' = renders + 1

\* the part of a card the frame step integrates
Kinematics(card) ==
    << card.position, card.velocity, card.scale, card.scaleVelocity >>

\* the source identifier the current list gives index i
SourceAt(i) == PhotoUrls(photos)[i + 1]

----------------------------------------------------------------------------
(* C1 *)

\* C1: a resource held by card i that is a loaded photo was produced by the load of
\* the source identifier the current list has at index i: the completion of a load
\* started for an earlier identifier at index i never writes the card.
C1_ResourceFromCurrentSource ==
    \A i \in DOMAIN cardData :
        cardData[i].texture.kind = "photo" => cardData[i].texture.url = photoData[i].url

----------------------------------------------------------------------------
(* C2 *)

\* C2: no step changes the galaxy position of a card whose source identifier stays
\* the same at its index: not a reconciliation, not a frame, not a load callback.
C2_GalaxyPositionGeneratedOnce ==
    [][ \A i \in DOMAIN cardData \cap DOMAIN cardData' :
          photoData'[i].url = photoData[i].url
            => cardData'[i].galaxyPosition = cardData[i].galaxyPosition ]_vars

----------------------------------------------------------------------------
(* C4 *)

\* the indices at which the new list differs from the old one of the same length
ReplacedIndices ==
    { i \in DOMAIN photoData : photoData'[i].url # photoData[i].url }

\* C4: a reconciliation that replaces the identifier at exactly one index of a list
\* of unchanged length leaves position, velocity, scale, scale-velocity, phase and
\* acquired resource of every other card as they were.
C4_OtherCardsUntouched ==
    [][ ( /\ IsReconciliation
          /\ DOMAIN photoData' = DOMAIN photoData
          /\ Cardinality(ReplacedIndices) = 1 )
        => \A j \in DOMAIN cardData \ ReplacedIndices :
             /\ Kinematics(cardData'[j]) = Kinematics(cardData[j])
             /\ cardData'[j].time = cardData[j].time
             /\ cardData[j].texture # NullTexture
                  => cardData'[j].texture = cardData[j].texture ]_vars

----------------------------------------------------------------------------
(* C5 *)

\* C5: at most one load is outstanding per card index and source identifier, so
\* that a card's resource is written once between two changes of its source.
C5_OneLoadPerCardAndSource ==
    \A a \in BagToSet(loads) : CopiesIn(a, loads) <= 1

----------------------------------------------------------------------------
(* C6 *)

\* C6: every frame presents each card with the resource the card holds: a frame
\* never runs while a card's JSX still has no photo, or an older one, although the
\* card has been given its resource.
C6_FramePresentsWrittenResource ==
    [][ IsFrame
        => \A i \in DOMAIN cardData :
             cardData[i].texture # NullTexture => rendered[i] = cardData[i].texture ]_vars

----------------------------------------------------------------------------
(* C7 *)

\* C7: in every state the store holds min(len(sources), 12) cards and card i
\* records the i-th source identifier of the current list.
C7_CardsMatchSources ==
    /\ DOMAIN cardData = Idx(Min(Len(PhotoUrls(photos)), MAX_CARDS))
    /\ \A i \in DOMAIN cardData : cardData[i].textureUrl = SourceAt(i)

----------------------------------------------------------------------------
(* C3 *)

\* card is in the state of a card initialised afresh at index i of pd
InitialisedAfresh(card, i, pd) ==
    /\ card.position = generateTreePhotoPosition(i, Cardinality(DOMAIN pd))
    /\ card.velocity = ZeroVec
    /\ card.scale = INITIAL_SCALE
    /\ card.scaleVelocity = 0
    /\ card.texture = NullTexture

----------------------------------------------------------------------------
(* C8 *)

\* C8: a load callback (onLoad or onError) that runs when the store has no card at
\* its index leaves the store as it is: no card is created and none is changed.
C8_CompletionWithoutCardWritesNothing ==
    [][ (IsCompletion /\ last'.i \notin DOMAIN cardData) => cardData' = cardData ]_vars

\* a load callback has just run for an index the shrunken list no longer has
C8_Witness ==
    /\ last.op \in {"onLoad", "onError"}
    /\ last.i \notin DOMAIN cardData
    /\ renders > 0
    /\ cardData # NoCards

----------------------------------------------------------------------------
(* C9 *)

\* C9: onError for a card the store still has gives the card the placeholder of hue
\* index*30 mod 360, which is a resource; and a frame integrates a card holding a
\* placeholder as it would integrate the same card holding a loaded photo.
C9_FailureGivesPlaceholderAndCardAnimates ==
    [][ /\ (IsCompletion /\ last'.op = "onError" /\ last'.i \in DOMAIN cardData)
          => /\ cardData'[last'.i].texture =
                  [kind |-> "placeholder", url |-> "", hue |-> (last'.i * 30) % 360]
             /\ cardData'[last'.i].texture # NullTexture
        /\ IsFrame
          => \A i \in DOMAIN cardData :
               cardData[i].texture.kind = "placeholder"
                 => /\ cardData'[i].texture = cardData[i].texture
                    /\ cardData'[i].time = cardData[i].time + last'.dt
                    /\ Kinematics(cardData'[i]) =
                         Kinematics(StepCard(
                           [cardData[i] EXCEPT !.texture = LoadedTexture(cardData[i].textureUrl)],
                           i, state, focusedIndex, last'.dt)) ]_vars

\* a frame has just integrated a moving card that holds a placeholder
C9_Witness ==
    /\ last.op = "frame"
    /\ \E i \in DOMAIN cardData :
         /\ cardData[i].texture.kind = "placeholder"
         /\ cardData[i].velocity # ZeroVec

----------------------------------------------------------------------------
(* C10 *)

\* the target the claim gives card i in the current state
ClaimedTargetPos(i) ==
    IF focusedIndex = i THEN << 0, 0, 800 >>
    ELSE IF state = "tree" THEN cardData[i].treePosition
    ELSE cardData[i].galaxyPosition

ClaimedTargetScale(i) == IF focusedIndex = i THEN 5000 ELSE 400

\* the cards whose target is the focused point with the focused scale
FocusTargeted ==
    { i \in DOMAIN cardData :
        /\ TargetPos(cardData[i], i, state, focusedIndex) = FocusedPoint
        /\ TargetScale(i, focusedIndex) = FOCUSED_SCALE }

\* C10: every frame moves every card toward the focused point and scale if the card
\* is the focused one, and otherwise toward its tree or galaxy position by the mode,
\* with the ambient scale; at most one card targets the focused point; and a focus
\* change from none to k changes the target of no card but k.
C10_TargetSelection ==
    [][ /\ IsFrame
          => \A i \in DOMAIN cardData :
               Kinematics(cardData'[i]) =
                 Kinematics(Integrate(cardData[i], ClaimedTargetPos(i),
                                      ClaimedTargetScale(i), last'.dt))
        /\ Cardinality(FocusTargeted) <= 1
        /\ (focusedIndex = NoFocus /\ focusedIndex' # NoFocus)
          => \A i \in DOMAIN cardData \ {focusedIndex'} :
               /\ TargetPos(cardData'[i], i, state', focusedIndex')
                    = TargetPos(cardData[i], i, state, focusedIndex)
               /\ TargetScale(i, focusedIndex') = TargetScale(i, focusedIndex) ]_vars

\* a frame has just run in galaxy mode with two cards, one of them focused
C10_Witness ==
    /\ last.op = "frame"
    /\ state = "galaxy"
    /\ Cardinality(DOMAIN cardData) = 2
    /\ focusedIndex \in DOMAIN cardData
    /\ \A i \in DOMAIN cardData : cardData[i].velocity # ZeroVec

----------------------------------------------------------------------------
(* C12 *)

\* card i is at its target position with velocity 0
PositionAtRest(i) ==
    /\ cardData[i].position = TargetPos(cardData[i], i, state, focusedIndex)
    /\ cardData[i].velocity = ZeroVec

\* card i has its target scale with scale velocity 0
ScaleAtRest(i) ==
    /\ cardData[i].scale = TargetScale(i, focusedIndex)
    /\ cardData[i].scaleVelocity = 0

\* C12: a frame, whatever its timestep, leaves the position and the velocity of a
\* card unchanged when the position is the target and the velocity is 0, and leaves
\* the scale and the scale velocity unchanged when the scale is the target scale and
\* the scale velocity is 0.
C12_IntegrationIdempotentAtRest ==
    [][ IsFrame
          => \A i \in DOMAIN cardData :
               /\ PositionAtRest(i)
                    => /\ cardData'[i].position = cardData[i].position
                       /\ cardData'[i].velocity = cardData[i].velocity
               /\ ScaleAtRest(i)
                    => /\ cardData'[i].scale = cardData[i].scale
                       /\ cardData'[i].scaleVelocity = cardData[i].scaleVelocity ]_vars

\* a frame has just run on a card that is at rest at its tree position, and its
\* phase has advanced
C12_Witness ==
    /\ last.op = "frame"
    /\ last.dt > 0
    /\ state = "tree"
    /\ \E i \in DOMAIN cardData :
         /\ PositionAtRest(i)
         /\ ScaleAtRest(i)
         /\ cardData[i].position = cardData[i].treePosition
         /\ cardData[i].time >= last.dt

----------------------------------------------------------------------------
(* C14 *)

\* C14: a frame advances every card of the store exactly once: the phase by the
\* timestep and position, velocity, scale and scale velocity by one integration
\* step, the same for a card without a texture, with a loaded photo and with a
\* placeholder; it adds and removes no card and touches no texture. The frame
\* callback has no condition on the loads: it runs while loads are in flight.
C14_FrameAdvancesEveryCardOnce ==
    [][ IsFrame
          => /\ DOMAIN cardData' = DOMAIN cardData
             /\ \A i \in DOMAIN cardData :
                  /\ cardData'[i].time = cardData[i].time + last'.dt
                  /\ Kinematics(cardData'[i]) =
                       Kinematics(Integrate(cardData[i],
                                            TargetPos(cardData[i], i, state, focusedIndex),
                                            TargetScale(i, focusedIndex), last'.dt))
                  /\ cardData'[i].texture = cardData[i].texture ]_vars

\* a frame has just moved two cards, one without a texture whose load is in flight
\* and one that holds a texture
C14_Witness ==
    /\ last.op = "frame"
    /\ last.dt > 0
    /\ \E i, j \in DOMAIN cardData :
         /\ cardData[i].texture = NullTexture
         /\ BagIn([i |-> i, url |-> cardData[i].textureUrl], loads)
         /\ cardData[j].texture # NullTexture
         /\ cardData[i].velocity # ZeroVec
         /\ cardData[j].velocity # ZeroVec

----------------------------------------------------------------------------
(* C15 *)

\* the frame delta of the step of which dt is the timestep
DeltasOf(dt) == { d \in Deltas : dt = IF d < 33 THEN d ELSE 33 }

\* C15: the timestep of a frame is min(delta, 0.033) for the delta the clock gave;
\* the frame adds this timestep, at most 0.033, to the phase of every card, and the
\* kinematic state of every card is that of one integration step with this timestep.
C15_TimestepClamped ==
    [][ IsFrame
          => /\ DeltasOf(last'.dt) # {}
             /\ last'.dt <= 33
             /\ \A i \in DOMAIN cardData :
                  /\ cardData'[i].time - cardData[i].time = last'.dt
                  /\ cardData'[i].time - cardData[i].time <= 33
                  /\ Kinematics(cardData'[i]) =
                       Kinematics(Integrate(cardData[i],
                                            TargetPos(cardData[i], i, state, focusedIndex),
                                            TargetScale(i, focusedIndex), last'.dt)) ]_vars

\* a frame whose delta was larger than 0.033 has just moved a card by the timestep
\* 0.033
C15_Witness ==
    /\ last.op = "frame"
    /\ last.dt = 33
    /\ 33 \notin Deltas
    /\ \E d \in Deltas : d > 33
    /\ \E i \in DOMAIN cardData : cardData[i].velocity # ZeroVec

----------------------------------------------------------------------------
(* C16 *)

\* C16: the phase of a card never decreases while the card is in the store: a frame
\* adds the timestep to it, a reconciliation that finds the card's source unchanged
\* keeps it, and no other step (load callback, mode change, focus change, timer
\* tick) changes it.
C16_PhaseMonotone ==
    [][ \A i \in DOMAIN cardData \cap DOMAIN cardData' :
          /\ cardData'[i].time >= cardData[i].time
          /\ IsFrame => cardData'[i].time = cardData[i].time + last'.dt
          /\ (IsReconciliation /\ i \notin last'.changed)
               => cardData'[i].time = cardData[i].time
          /\ (~IsFrame /\ ~IsReconciliation)
               => cardData'[i].time = cardData[i].time ]_vars

----------------------------------------------------------------------------
(* C17 *)

\* everything of a card but its texture
AllButTexture(card) ==
    << card.textureUrl, card.position, card.velocity, card.scale, card.scaleVelocity,
       card.time, card.treePosition, card.galaxyPosition >>

\* C17: a run of a load callback, onLoad or onError, changes at most the texture of
\* the card at the index of the load: the card's textureUrl, position, velocity,
\* scale, scale velocity, time, tree and galaxy position stay as they were, every
\* other card stays as it was, and no card is added or removed.
C17_CompletionWritesTextureOnly ==
    [][ IsCompletion
          => /\ DOMAIN cardData' = DOMAIN cardData
             /\ \A j \in DOMAIN cardData :
                  /\ AllButTexture(cardData'[j]) = AllButTexture(cardData[j])
                  /\ j # last'.i => cardData'[j] = cardData[j] ]_vars

----------------------------------------------------------------------------
(* The component under a fair scheduler *)

\* some load in flight resolves, with success or with an error
SomeLoadResolves == \E a \in BagToSet(loads) : LoadSuccess(a) \/ LoadError(a)

\* Spec with the 100 ms interval firing as long as it is set and with every load
\* started resolving
FairSpec == Spec /\ WF_vars(Tick) /\ WF_vars(SomeLoadResolves)

----------------------------------------------------------------------------
(* C18 *)

\* card i holds a texture that the last render did not read
Unpresented(i) ==
    /\ i \in DOMAIN cardData
    /\ cardData[i].texture # NullTexture
    /\ rendered[i] # cardData[i].texture

\* C18: whenever a card holds a texture a load callback wrote and the last render
\* did not read it, a later render reads the texture the card then holds (or the
\* card has left the store), also when the load was started by a list change that
\* came after the interval found every card loaded.
C18_WrittenResourcePresented ==
    \A i \in Idx(MAX_CARDS) : [](Unpresented(i) => <>(~Unpresented(i)))

----------------------------------------------------------------------------
(* C19 *)

\* the step is a run of the interval callback
IsTick == last'.op = "tick"

\* C19: when every load started resolves and the list stops changing, the interval
\* is eventually cleared for good. The interval callback runs only while the
\* interval is set; it clears the interval exactly when every card of the store
\* holds a texture; nothing else clears it and nothing sets it again.
C19_PollingTimerStops ==
    /\ [][ IsTick => (intervalActive /\ intervalActive' = ~AllLoaded(cardData)) ]_vars
    /\ [][ (intervalActive /\ ~intervalActive') => (IsTick /\ AllLoaded(cardData)) ]_vars
    /\ [][ ~intervalActive => ~intervalActive' ]_vars
    /\ <>[](~intervalActive)

\* the interval callback has just cleared the interval after a list change, with
\* every card holding a texture
C19_Witness ==
    /\ last.op = "tick"
    /\ ~intervalActive
    /\ renders > 0
    /\ AllLoaded(cardData)
    /\ Cardinality(DOMAIN cardData) > 1

----------------------------------------------------------------------------
(* C20 *)

\* the cards the last step created: all of them at mount, those at the indices the
\* store did not have at a reconciliation
NewCards ==
    IF last.op = "mount" THEN DOMAIN cardData
    ELSE IF last.op = "setPhotos" THEN { i \in DOMAIN cardData : i >= last.n }
    ELSE {}

----------------------------------------------------------------------------
(* The component with the photos prop absent or empty *)

\* the loads that resolve are those of the cards at the indices up to this one;
\* the loads of the other cards stay in flight
MaxWideLoadIndex == 1

\* the photo lists of the parent: none (photos undefined or []), and one url
WidePhotoLists == { << >>, << "a.jpg" >> }

WideInit ==
    \E p \in WidePhotoLists, m \in Modes :
      \E rnd \in RandomResults(p) : Mount(p, m, rnd)

WideNext ==
    \/ renders < MaxRenders
         /\ \E p \in WidePhotoLists : \E rnd \in RandomResults(p) : SetPhotos(p, rnd)
    \/ \E m \in Modes : SetState(m)
    \/ \E f \in FocusValues : SetFocus(f)
    \/ \E a \in BagToSet(loads) : a.i <= MaxWideLoadIndex /\ LoadSuccess(a)
    \/ \E a \in BagToSet(loads) : a.i <= MaxWideLoadIndex /\ LoadError(a)
    \/ frames < MaxFrames /\ \E d \in Deltas : Frame(d)
    \/ Tick

WideSpec == WideInit /\ [][WideNext]_vars

----------------------------------------------------------------------------
(* C13 *)

\* the total the useMemo body passes to generateTreePhotoPosition
TreeTotal == Cardinality(DOMAIN photoData)

\* C13: with the photos prop absent or empty the cards are those of the default
\* photos; whenever generateTreePhotoPosition has been evaluated, for the photos of
\* photoData, its total was at least 1; and the useMemo body gives a list of no urls
\* no photo, without evaluating generateTreePhotoPosition.
C13_DefaultListAndTotalPositive ==
    /\ Len(photos) = 0
         => /\ DOMAIN photoData = Idx(Len(PERMANENT_PHOTOS))
            /\ DOMAIN cardData = DOMAIN photoData
            /\ \A i \in DOMAIN photoData : photoData[i].url = PERMANENT_PHOTOS[i + 1]
    /\ TreeTotal >= 1
    /\ \A i \in DOMAIN photoData :
         photoData[i].treePosition = generateTreePhotoPosition(i, TreeTotal)
    /\ DOMAIN PhotoDataOf(<< >>, NoCards) = {}

\* the parent has replaced a list of one url by no list and a load callback has
\* just run: the store has the cards of the default photos, one with its texture
C13_Witness ==
    /\ last.op \in {"onLoad", "onError"}
    /\ Len(photos) = 0
    /\ renders > 0
    /\ Cardinality(DOMAIN cardData) = Len(PERMANENT_PHOTOS)
    /\ \E i \in DOMAIN cardData : cardData[i].texture # NullTexture

----------------------------------------------------------------------------
(* The component animated over many frames with a fixed list *)

\* the parent changes mode and focus before the first frame and after this many
\* frames, and not in between or later
DisturbFrames == 30

\* frames of the rendering clock after which the cards are expected at rest
SettleFrames == 100

\* frames of a run
MaxSettleFrames == 140

\* a frame delta over the clamp comes at most at every HiccupPeriod-th frame
HiccupPeriod == 20

\* distance, in thousandths, under which a card counts as arrived; the rounding of
\* the fixed-point integration can hold a card up to 11 thousandths off its target
Epsilon == 20

\* the list of the parent, the same in every render
SettlePhotos == << "a.jpg" >>

SettleInit ==
    \E m \in Modes :
      \E rnd \in RandomResults(SettlePhotos) : Mount(SettlePhotos, m, rnd)

SettleNext ==
    \/ frames \in {0, DisturbFrames} /\ \E m \in Modes : SetState(m)
    \/ frames \in {0, DisturbFrames} /\ \E f \in FocusValues : SetFocus(f)
    \/ \E a \in BagToSet(loads) : LoadSuccess(a)
    \/ \E a \in BagToSet(loads) : LoadError(a)
    \/ frames < MaxSettleFrames
         /\ \E d \in Deltas : (d <= MAX_DT \/ frames % HiccupPeriod = 0) /\ Frame(d)
    \/ Tick

SettleSpec == SettleInit /\ [][SettleNext]_vars

----------------------------------------------------------------------------
(* C11 *)

Abs(x) == IF x < 0 THEN -x ELSE x

\* card i is within Epsilon of its tree position and of the ambient scale
Settled(i) ==
    /\ \A k \in 1..3 :
         Abs(cardData[i].position[k] - cardData[i].treePosition[k]) <= Epsilon
    /\ Abs(cardData[i].scale - 400) <= Epsilon

====
